---- MODULE Spec2Model ----
(***************************************************************************)
(* A model of the npg-irods command line tools:                            *)
(*   locate-data-objects  (consent-withdrawn, illumina-updates,            *)
(*                         ont-updates sub-commands),                      *)
(*   apply-ont-metadata, update-secondary-metadata,                        *)
(* and of the ML warehouse queries exercised by test_ml_warehouse_queries. *)
(*                                                                         *)
(* One behaviour is one invocation of one command.  The warehouse scan a   *)
(* command iterates over is a lazy generator: every loop iteration first   *)
(* draws the next item the generator yields and then runs the loop body.   *)
(***************************************************************************)
EXTENDS Integers, Sequences, FiniteSets, TLC

(* ---------------------------- bounds ---------------------------------- *)
\* largest --skip-absent-runs value explored (the CLI allows 1..100)
MaxSkip == 2
\* largest number of entities one store query returns
MaxObjs == 1
\* largest number of items the consent-withdrawn and ONT scans yield, and
\* of paths in the input of update-secondary-metadata
MaxItems == 3
\* largest number of records loaded into the ML warehouse
MaxRows == 2
\* largest number of workers of the update driver's pool that are followed
MaxWorkers == 2
\* largest number of reconcile calls made for one entity
MaxCalls == 3
\* latest changed-at timestamp of a warehouse record
MaxTime == 2
\* largest --clients / --threads value explored
MaxClients == 4

(* ------------------------ program constants ---------------------------- *)
\* Python None: a missing id_sample_lims, an absent tag, --skip-absent-runs
\* given without a value
None == 0
\* argparse defaults of --clients and --threads
DefaultClients == 4
DefaultThreads == 4
\* exit status of a process that has not exited yet
NotExited == -1

(* --------------------------- value domains ----------------------------- *)
Runs == {1, 2}
Positions == {1, 2}
Tags == {1, 2}
Samples == {1, 2}

\* A component is <<run, position, tag-or-None>>.  Run 1 is multiplexed (its
\* records carry a tag), run 2 is not.
Components ==
    {c \in Runs \X Positions \X (Tags \cup {None}) :
        (c[1] = 1) <=> (c[3] # None)}

\* sorts before every component: the scan has yielded nothing yet
NoComp == <<0, 0, 0>>

\* The scan order: ascending (run, position, tag-or-None)
CompLess(a, b) ==
    \/ a[1] < b[1]
    \/ a[1] = b[1] /\ a[2] < b[2]
    \/ a[1] = b[1] /\ a[2] = b[2] /\ a[3] < b[3]

Commands ==
    {"consent_withdrawn", "illumina_updates", "ont_updates",
     "apply_ont_metadata", "update_secondary_metadata", "mlwh_queries",
     "reconcile"}

VARIABLES
    cmd,              \* the command of this invocation
    version,          \* args.version
    pc,               \* "main", "loop", "exited"
    exit_status,      \* NotExited, 0 or 1
    num_processed,
    num_updated,
    num_errors,
    skip_absent_runs, \* cli_args.skip_absent_runs, None or 1..MaxSkip
    report_tags,      \* cli_args.report_tags
    attempts_per_run,
    success_per_run,
    last_comp,        \* the component (or sample item) yielded last
    printed,          \* what has been written to STDOUT
    queries,          \* history: store lookups and their results, per
                      \* run (or sample id)
    num_yielded,      \* history: items the warehouse scan has yielded
    last,             \* history: what the last loop iteration did
    skip_logged,      \* history: "Skipping run ..." events logged, per run
    returned,         \* history: the entities store queries have returned
    unseen,           \* history: the runs a component of which was skipped
                      \* while the store held entities for it
    expansions,       \* history: calls of barcode_collections
    wh,               \* the ML warehouse: a set of records
    begin_date,       \* args.begin_date of apply-ont-metadata
    end_date,         \* args.end_date of apply-ont-metadata
    processed,        \* history: the (run, position) pairs apply_metadata saw
    query,            \* the warehouse query a test made last
    found,            \* the sequence find_updated_components returned
    recent,           \* the set find_recent_expt / recently_changed returned
    clients,          \* args.clients of update-secondary-metadata
    threads,          \* args.threads of update-secondary-metadata
    pool_size,        \* the size of the pool the update driver ran with
    entity,           \* the store entity reconcile works on
    desired,          \* the desired state reconcile is called with
    store_calls,      \* history: the calls reconcile has made to the store
    outcomes,         \* history: the results of the reconcile calls and the
                      \* external changes between them, in order
    num_paths,        \* the number of paths in the driver's input stream
    next_path,        \* the next path of the input stream to be claimed
    working,          \* per worker: the path it works on, or None
    path_result,      \* per path: its ReconciliationResult once it has one
    aborted,          \* the driver has stopped claiming paths
    peak              \* history: most workers busy at the same time

loopvars ==
    <<cmd, version, pc, exit_status, num_processed, num_updated, num_errors,
      skip_absent_runs, report_tags, attempts_per_run, success_per_run,
      last_comp, printed, queries, num_yielded, last>>

histvars == <<skip_logged, returned, unseen, expansions>>

whvars == <<wh, begin_date, end_date, processed, query, found, recent>>

poolvars == <<clients, threads, pool_size>>

recvars == <<entity, desired, store_calls, outcomes>>

drvvars == <<num_paths, next_path, working, path_result, aborted, peak>>

vars == <<loopvars, histvars, whvars, poolvars, recvars, drvvars>>

Keys == Runs \cup Samples \cup {None}

NoStep == [op |-> "none", key |-> None, comp |-> NoComp, n |-> 0]

\* What one store lookup does: it raises, or it returns n entities and
\* printing them succeeds, or it returns n >= 1 entities and printing fails
\* on the last of them.
QueryOutcomes ==
    {o \in [kind : {"ok", "query_error", "print_error"}, n : 0 .. MaxObjs] :
        /\ o.kind = "query_error" => o.n = 0
        /\ o.kind = "print_error" => o.n >= 1}

\* History of store lookups: how many were issued, returned nothing,
\* returned an entity, and ended in an exception
NoLookups == [issued |-> 0, empty |-> 0, hit |-> 0, raised |-> 0]

Lookup(q, o) ==
    [issued |-> q.issued + 1,
     empty  |-> q.empty + (IF o.kind = "ok" /\ o.n = 0 THEN 1 ELSE 0),
     hit    |-> q.hit + (IF o.n >= 1 THEN 1 ELSE 0),
     raised |-> q.raised + (IF o.kind # "ok" THEN 1 ELSE 0)]

Printed(kind, c, n) == {[kind |-> kind, comp |-> c, k |-> k] : k \in 1 .. n}

(* ------------------- locate-data-objects: shared pieces ---------------- *)
\* mutant: the exit status ignores num_errors
ExitStatus_AlwaysZero(errors) == 0

\* "if num_errors: exit(1)"; a command that returns from main exits with 0
ExitStatus(errors) == IF errors > 0 THEN 1 ELSE 0

\* mutant: the item counter is incremented after the branches that continue
NumProcessed_AfterContinue(n, op) ==
    IF op \in {"missing", "skip", "empty"} THEN n ELSE n + 1

\* "num_processed += 1", the first statement of each loop body
NumProcessed(n, op) == n + 1

\* mutant: an exception raised by the store query is swallowed uncounted
CountsAsError_NotQueryError(op) == op \in {"missing", "print_error"}

\* mutant: a skipped component is counted as an error
CountsAsError_Skip(op) ==
    op \in {"missing", "query_error", "print_error", "skip"}

\* The outcomes of a loop iteration that reach "num_errors += 1": the
\* except clauses of the three loops and the missing-identifier branch
CountsAsError(op) == op \in {"missing", "query_error", "print_error"}

(* ------------------- locate-data-objects: consent_withdrawn ------------ *)
\* mutant: the missing-identifier test is lost
MissingId_Never(id_sample_lims) == FALSE

\* "if s.id_sample_lims is None"
MissingId(id_sample_lims) == id_sample_lims = None

\* What the body of the consent_withdrawn loop does for one sample
ConsentOutcome(id_sample_lims, o) ==
    IF MissingId(id_sample_lims) THEN "missing"
    ELSE IF o.kind = "query_error" THEN "query_error"
    ELSE IF o.kind = "print_error" THEN "print_error"
    ELSE IF o.n = 0 THEN "empty"
    ELSE "found"

\* Paths printed before control leaves the try block
NumPrinted(op, o) ==
    IF op = "found" THEN o.n
    ELSE IF op = "print_error" THEN o.n - 1
    ELSE 0

\* Whether the iteration reaches query_metadata
IssuesQuery(op) == op \in {"query_error", "print_error", "empty", "found"}

consent_withdrawn_loop ==
    /\ cmd = "consent_withdrawn"
    /\ pc = "loop"
    /\ num_yielded < MaxItems
    /\ \E s \in Samples \cup {None}, o \in QueryOutcomes :
        LET item == <<num_yielded + 1, s, None>>
            op == ConsentOutcome(s, o)
            np == NumPrinted(op, o)
        IN  /\ num_yielded' = num_yielded + 1
            /\ last_comp' = item
            /\ num_processed' = NumProcessed(num_processed, op)
            /\ num_errors' =
                  IF CountsAsError(op) THEN num_errors + 1 ELSE num_errors
            /\ queries' =
                  IF IssuesQuery(op)
                  THEN [queries EXCEPT ![s] = Lookup(@, o)] ELSE queries
            /\ printed' = printed \cup Printed("obj", item, np)
            /\ last' = [op |-> op, key |-> s, comp |-> item, n |-> np]
    /\ UNCHANGED <<histvars, cmd, version, pc, exit_status, num_updated,
                   skip_absent_runs, report_tags, attempts_per_run,
                   success_per_run, whvars, poolvars, recvars, drvvars>>

consent_withdrawn_end ==
    /\ cmd = "consent_withdrawn"
    /\ pc = "loop"
    /\ pc' = "exited"
    /\ exit_status' = ExitStatus(num_errors)
    /\ UNCHANGED <<histvars, cmd, version, num_processed, num_updated, num_errors,
                   skip_absent_runs, report_tags, attempts_per_run,
                   success_per_run, last_comp, printed, queries,
                   num_yielded, last, whvars, poolvars, recvars, drvvars>>

(* ------------------- locate-data-objects: illumina_updates ------------- *)
\* mutant: the run is skipped one attempt late
SkipRun_OffByOne(skip, successes, attempts) ==
    /\ skip # None
    /\ successes = 0
    /\ attempts = skip + 1

\* mutant: the skip test forgets the successes of the run
SkipRun_IgnoreSuccess(skip, successes, attempts) ==
    /\ skip # None
    /\ attempts = skip

\* mutant: the skip test forgets that the option may be unset
SkipRun_UnsetNotTested(skip, successes, attempts) ==
    /\ successes = 0
    /\ attempts = skip

\* The skip test made before the store is queried
SkipRun(skip, successes, attempts) ==
    /\ skip # None
    /\ successes = 0
    /\ attempts = skip

\* What the body of the illumina_updates loop does for one component
IlluminaOutcome(skip, successes, attempts, o) ==
    IF SkipRun(skip, successes, attempts) THEN "skip"
    ELSE IF o.kind = "query_error" THEN "query_error"
    ELSE IF o.n = 0 THEN "empty"
    ELSE IF o.kind = "print_error" THEN "print_error"
    ELSE "found"

\* mutant: every lookup that returns counts as an attempt
Attempts_OnAnyResult(op, attempts) ==
    IF op \in {"empty", "found", "print_error"} THEN attempts + 1
    ELSE attempts

\* mutant: a lookup that raises counts as an attempt too
Attempts_OnError(op, attempts) ==
    IF op \in {"empty", "query_error"} THEN attempts + 1 ELSE attempts

\* "if not result: attempts_per_run[c.id_run] += 1"
Attempts(op, attempts) == IF op = "empty" THEN attempts + 1 ELSE attempts

\* "success_per_run[c.id_run] += 1", reached when the result is not empty
\* and before the result is printed
Successes(op, successes) ==
    IF op \in {"found", "print_error"} THEN successes + 1 ELSE successes

\* mutant: a skipped component leaves no trace in the log
LogsSkip_Never(op) == FALSE

\* log.info("Skipping run after unsuccessful attempts to find it", ...)
LogsSkip(op) == op = "skip"

\* The entities query_metadata returned for component c; clean tells that
\* the iteration ended without an exception
Returned(c, op, o) ==
    IF op \in {"found", "print_error"}
    THEN {[comp |-> c, k |-> k, clean |-> (op = "found")] : k \in 1 .. o.n}
    ELSE {}

\* The skip branch continues before query_metadata is reached: entities
\* the store holds for a skipped component are never seen
Unseen(c, op, o) == IF op = "skip" /\ o.n >= 1 THEN {c[1]} ELSE {}

illumina_updates_loop ==
    /\ cmd = "illumina_updates"
    /\ pc = "loop"
    /\ \E c \in Components, o \in QueryOutcomes :
        LET r == c[1]
            op == IlluminaOutcome(skip_absent_runs, success_per_run[r],
                                  attempts_per_run[r], o)
            np == NumPrinted(op, o)
        IN  /\ CompLess(last_comp, c)
            /\ num_yielded' = num_yielded + 1
            /\ last_comp' = c
            /\ num_processed' = NumProcessed(num_processed, op)
            /\ attempts_per_run' =
                  [attempts_per_run EXCEPT ![r] = Attempts(op, @)]
            /\ success_per_run' =
                  [success_per_run EXCEPT ![r] = Successes(op, @)]
            /\ num_errors' =
                  IF CountsAsError(op) THEN num_errors + 1 ELSE num_errors
            /\ queries' =
                  IF IssuesQuery(op)
                  THEN [queries EXCEPT ![r] = Lookup(@, o)] ELSE queries
            /\ printed' = printed \cup Printed("obj", c, np)
            /\ last' = [op |-> op, key |-> r, comp |-> c, n |-> np]
            /\ skip_logged' =
                  IF LogsSkip(op)
                  THEN [skip_logged EXCEPT ![r] = @ + 1] ELSE skip_logged
            /\ returned' = returned \cup Returned(c, op, o)
            /\ unseen' = unseen \cup Unseen(c, op, o)
    /\ UNCHANGED <<cmd, version, pc, exit_status, num_updated,
                   skip_absent_runs, report_tags, expansions, whvars,
                   poolvars, recvars, drvvars>>

illumina_updates_end ==
    /\ cmd = "illumina_updates"
    /\ pc = "loop"
    /\ pc' = "exited"
    /\ exit_status' = ExitStatus(num_errors)
    /\ UNCHANGED <<histvars, cmd, version, num_processed, num_updated, num_errors,
                   skip_absent_runs, report_tags, attempts_per_run,
                   success_per_run, last_comp, printed, queries,
                   num_yielded, last, whvars, poolvars, recvars, drvvars>>

(* ------------------- locate-data-objects: ont_updates ------------------ *)
\* The components ont.find_updated_components yields: without include_tags
\* no component carries a tag identifier
OntComponents(include_tags) ==
    IF include_tags THEN Components
    ELSE {<<c[1], c[2], None>> : c \in Components}

\* mutant: barcode folders are reported for every component
ReportBarcodes_IgnoreTag(tags, tag_identifier) == tags

\* "if report_tags and c.tag_identifier is not None"
ReportBarcodes(tags, tag_identifier) == tags /\ tag_identifier # None

\* Calls of barcode_collections made for the n collections the loop over
\* the query result reaches
Expansions(tags, c, n) == IF ReportBarcodes(tags, c[3]) THEN n ELSE 0

\* What the body of the ont_updates loop does for one component
OntOutcome(o) ==
    IF o.kind = "query_error" THEN "query_error"
    ELSE IF o.kind = "print_error" THEN "print_error"
    ELSE IF o.n = 0 THEN "empty"
    ELSE "found"

\* What is printed for the first n collections found for component c; a
\* barcode sub-collection is printed for a collection only if it exists
OntPrinted(tags, c, n, has_barcode) ==
    IF ReportBarcodes(tags, c[3])
    THEN IF has_barcode THEN Printed("bcoll", c, n) ELSE {}
    ELSE Printed("coll", c, n)

ont_updates_loop ==
    /\ cmd = "ont_updates"
    /\ pc = "loop"
    /\ num_yielded < MaxItems
    /\ \E c \in OntComponents(report_tags), o \in QueryOutcomes,
          has_barcode \in BOOLEAN :
        LET r == c[1]
            op == OntOutcome(o)
            out == OntPrinted(report_tags, c, NumPrinted(op, o), has_barcode)
        IN  /\ CompLess(last_comp, c)
            /\ num_yielded' = num_yielded + 1
            /\ last_comp' = c
            /\ num_processed' = NumProcessed(num_processed, op)
            /\ num_errors' =
                  IF CountsAsError(op) THEN num_errors + 1 ELSE num_errors
            /\ queries' = [queries EXCEPT ![r] = Lookup(@, o)]
            /\ printed' = printed \cup out
            /\ last' = [op |-> op, key |-> r, comp |-> c,
                        n |-> Cardinality(out)]
            /\ returned' = returned \cup Returned(c, op, o)
            /\ expansions' = expansions + Expansions(report_tags, c, o.n)
    /\ UNCHANGED <<skip_logged, unseen, cmd, version, pc, exit_status,
                   num_updated, skip_absent_runs, report_tags,
                   attempts_per_run, success_per_run, whvars, poolvars,
                   recvars, drvvars>>

ont_updates_end ==
    /\ cmd = "ont_updates"
    /\ pc = "loop"
    /\ pc' = "exited"
    /\ exit_status' = ExitStatus(num_errors)
    /\ UNCHANGED <<histvars, cmd, version, num_processed, num_updated, num_errors,
                   skip_absent_runs, report_tags, attempts_per_run,
                   success_per_run, last_comp, printed, queries,
                   num_yielded, last, whvars, poolvars, recvars, drvvars>>

\* main() of locate-data-objects: --version prints and exits, otherwise the
\* sub-command's function runs
locate_data_objects_main ==
    /\ cmd \in {"consent_withdrawn", "illumina_updates", "ont_updates"}
    /\ pc = "main"
    /\ IF version
       THEN pc' = "exited" /\ exit_status' = 0
       ELSE pc' = "loop" /\ exit_status' = exit_status
    /\ UNCHANGED <<histvars, cmd, version, num_processed, num_updated, num_errors,
                   skip_absent_runs, report_tags, attempts_per_run,
                   success_per_run, last_comp, printed, queries,
                   num_yielded, last, whvars, poolvars, recvars, drvvars>>

(* --------------------------- the ML warehouse -------------------------- *)
\* A record of the warehouse: the component it belongs to and its
\* changed-at timestamp.  Several records may belong to one component.
Rows == [comp : Components, t : 1 .. MaxTime]

\* Query dates; MaxTime + 1 is later than every record
Dates == 1 .. MaxTime + 1

\* The tracking database gains a record before the command or test runs
mlwh_record ==
    /\ cmd \in {"apply_ont_metadata", "mlwh_queries"}
    /\ pc = "main"
    /\ Cardinality(wh) < MaxRows
    /\ \E row \in Rows \ wh : wh' = wh \cup {row}
    /\ UNCHANGED <<histvars, loopvars, begin_date, end_date, processed,
                   query, found, recent, poolvars, recvars, drvvars>>

\* mutant: the upper bound of the window is exclusive
InWindow_ExclusiveUntil(t, since, until) ==
    since <= t /\ (until = None \/ t < until)

\* recorded_at BETWEEN since AND until; until = None leaves the window open
InWindow(t, since, until) == since <= t /\ (until = None \/ t <= until)

\* mutant: the tag identifier is selected whatever include_tags says
Project_KeepTag(c, include_tags) == c

\* The columns selected: the tag identifier only with include_tags
Project(c, include_tags) ==
    IF include_tags THEN c ELSE <<c[1], c[2], None>>

\* ORDER BY run, position, tag: the least component first
RECURSIVE SortComponents(_)
SortComponents(S) ==
    IF S = {} THEN <<>>
    ELSE LET least == CHOOSE x \in S : \A y \in S : x = y \/ CompLess(x, y)
         IN  <<least>> \o SortComponents(S \ {least})

\* SELECT DISTINCT ... WHERE recorded_at BETWEEN since AND until ORDER BY ...
find_updated_components(rows, since, until, include_tags) ==
    SortComponents({Project(r.comp, include_tags) :
                      r \in {x \in rows : InWindow(x.t, since, until)}})

\* The experiments with a record changed at or after since
find_recent_expt(rows, since) ==
    {r.comp[1] : r \in {x \in rows : InWindow(x.t, since, None)}}

\* The records changed at or after since
recently_changed(rows, since) == {x \in rows : InWindow(x.t, since, None)}

NoQuery == [fn |-> "none", since |-> None, until |-> None, tags |-> FALSE]

test_find_updated_components ==
    /\ cmd = "mlwh_queries"
    /\ pc = "main"
    /\ \E s \in Dates, u \in Dates, tags \in BOOLEAN :
        /\ query' = [fn |-> "find_updated_components", since |-> s,
                     until |-> u, tags |-> tags]
        /\ found' = find_updated_components(wh, s, u, tags)
    /\ pc' = "tested"
    /\ UNCHANGED <<histvars, cmd, version, exit_status, num_processed, num_updated,
                   num_errors, skip_absent_runs, report_tags,
                   attempts_per_run, success_per_run, last_comp, printed,
                   queries, num_yielded, last, wh, begin_date, end_date,
                   processed, recent, poolvars, recvars, drvvars>>

test_find_recent_expt ==
    /\ cmd = "mlwh_queries"
    /\ pc = "main"
    /\ \E s \in Dates :
        /\ query' = [fn |-> "find_recent_expt", since |-> s,
                     until |-> None, tags |-> FALSE]
        /\ recent' = find_recent_expt(wh, s)
    /\ pc' = "tested"
    /\ UNCHANGED <<histvars, cmd, version, exit_status, num_processed, num_updated,
                   num_errors, skip_absent_runs, report_tags,
                   attempts_per_run, success_per_run, last_comp, printed,
                   queries, num_yielded, last, wh, begin_date, end_date,
                   processed, found, poolvars, recvars, drvvars>>

test_recently_changed ==
    /\ cmd = "mlwh_queries"
    /\ pc = "main"
    /\ \E s \in Dates :
        /\ query' = [fn |-> "recently_changed", since |-> s,
                     until |-> None, tags |-> FALSE]
        /\ recent' = recently_changed(wh, s)
    /\ pc' = "tested"
    /\ UNCHANGED <<histvars, cmd, version, exit_status, num_processed, num_updated,
                   num_errors, skip_absent_runs, report_tags,
                   attempts_per_run, success_per_run, last_comp, printed,
                   queries, num_yielded, last, wh, begin_date, end_date,
                   processed, found, poolvars, recvars, drvvars>>

(* --------------------------- apply-ont-metadata ------------------------ *)
\* The window main hands to apply_metadata: "since=args.begin_date"; no
\* until is passed
ApplyMetadataWindow(begin, end) == [since |-> begin, until |-> None]

\* The (run, position) pairs apply_metadata processes: those with a record
\* changed in the window it is given
apply_metadata(rows, window) ==
    {<<r.comp[1], r.comp[2]>> :
        r \in {x \in rows : InWindow(x.t, window.since, window.until)}}

apply_ont_metadata_main ==
    /\ cmd = "apply_ont_metadata"
    /\ pc = "main"
    /\ pc' = "exited"
    /\ IF version
       THEN /\ exit_status' = 0
            /\ UNCHANGED <<num_processed, num_updated, num_errors, processed>>
       ELSE LET runs == apply_metadata(wh,
                            ApplyMetadataWindow(begin_date, end_date))
            IN  /\ processed' = runs
                /\ num_processed' = Cardinality(runs)
                /\ \E ne \in 0 .. Cardinality(runs) :
                     \E nu \in 0 .. Cardinality(runs) - ne :
                        /\ num_errors' = ne
                        /\ num_updated' = nu
                        /\ exit_status' = ExitStatus(ne)
    /\ UNCHANGED <<histvars, cmd, version, skip_absent_runs, report_tags,
                   attempts_per_run, success_per_run, last_comp, printed,
                   queries, num_yielded, last, wh, begin_date, end_date,
                   query, found, recent, poolvars, recvars, drvvars>>

(* ------------------------ update-secondary-metadata -------------------- *)
\* The pool arguments main passes to update_secondary_metadata: the call
\* names input, output, session, print_update and print_fail only
PoolArguments(c, t) == [clients |-> None, threads |-> None]

\* The pool the update driver runs with: clients x threads, each at its
\* default when the caller does not give it
DriverPoolSize(a) ==
    (IF a.clients = None THEN DefaultClients ELSE a.clients)
      * (IF a.threads = None THEN DefaultThreads ELSE a.threads)

\* The workers of the pool that the model follows
Workers(size) == 1 .. (IF size < MaxWorkers THEN size ELSE MaxWorkers)

Busy(w) == {v \in DOMAIN w : w[v] # None}

\* mutant: the driver stops claiming paths after a failed item
Aborts_OnFailure(result) == result = "FAILED"

\* "Does not abort on a single item's failure"
Aborts(result) == FALSE

\* The counters after one item has been classified, updated in one atomic
\* step
Aggregate(counters, result) ==
    [num_processed |-> counters.num_processed + 1,
     num_updated   |-> counters.num_updated
                          + (IF result = "UPDATED" THEN 1 ELSE 0),
     num_errors    |-> counters.num_errors
                          + (IF result = "FAILED" THEN 1 ELSE 0)]

\* main() up to the call of update_secondary_metadata: --version prints and
\* exits, otherwise the driver starts on the input stream
update_secondary_metadata_main ==
    /\ cmd = "update_secondary_metadata"
    /\ pc = "main"
    /\ IF version
       THEN /\ pc' = "exited"
            /\ exit_status' = 0
            /\ UNCHANGED <<pool_size, num_paths>>
       ELSE /\ pc' = "driver"
            /\ exit_status' = exit_status
            /\ pool_size' = DriverPoolSize(PoolArguments(clients, threads))
            /\ num_paths' \in 0 .. MaxItems
    /\ UNCHANGED <<histvars, cmd, version, num_processed, num_updated,
                   num_errors, skip_absent_runs, report_tags,
                   attempts_per_run, success_per_run, last_comp, printed,
                   queries, num_yielded, last, whvars, clients, threads,
                   recvars, next_path, working, path_result, aborted, peak>>

\* An idle worker claims the next path of the input stream
worker_claim(w) ==
    /\ cmd = "update_secondary_metadata"
    /\ pc = "driver"
    /\ ~aborted
    /\ working[w] = None
    /\ next_path <= num_paths
    /\ working' = [working EXCEPT ![w] = next_path]
    /\ next_path' = next_path + 1
    /\ peak' = IF Cardinality(Busy(working')) > peak
               THEN Cardinality(Busy(working')) ELSE peak
    /\ UNCHANGED <<loopvars, histvars, whvars, poolvars, recvars, num_paths,
                   path_result, aborted>>

\* A worker has reconciled its path: the item is classified and counted
worker_complete(w) ==
    /\ cmd = "update_secondary_metadata"
    /\ pc = "driver"
    /\ working[w] # None
    /\ \E result \in {"UPDATED", "UNCHANGED", "FAILED"} :
        LET counters == Aggregate([num_processed |-> num_processed,
                                   num_updated   |-> num_updated,
                                   num_errors    |-> num_errors], result)
        IN  /\ path_result' = [path_result EXCEPT ![working[w]] = result]
            /\ num_processed' = counters.num_processed
            /\ num_updated' = counters.num_updated
            /\ num_errors' = counters.num_errors
            /\ aborted' = (aborted \/ Aborts(result))
    /\ working' = [working EXCEPT ![w] = None]
    /\ UNCHANGED <<histvars, cmd, version, pc, exit_status, skip_absent_runs,
                   report_tags, attempts_per_run, success_per_run, last_comp,
                   printed, queries, num_yielded, last, whvars, poolvars,
                   recvars, num_paths, next_path, peak>>

\* The input is exhausted and all dispatched work has completed: the driver
\* returns the counters and main exits, with status 1 "if num_errors"
driver_return ==
    /\ cmd = "update_secondary_metadata"
    /\ pc = "driver"
    /\ aborted \/ next_path > num_paths
    /\ Busy(working) = {}
    /\ pc' = "exited"
    /\ exit_status' = ExitStatus(num_errors)
    /\ UNCHANGED <<histvars, cmd, version, num_processed, num_updated,
                   num_errors, skip_absent_runs, report_tags,
                   attempts_per_run, success_per_run, last_comp, printed,
                   queries, num_yielded, last, whvars, poolvars, recvars,
                   drvvars>>

(* ----------------------------- Differ/Applier -------------------------- *)
\* Attribute keys the system owns; every other key is foreign
OwnedKeys == {"sample"}

\* The attributes an entity may carry: (key, value) pairs
AVUs == (OwnedKeys \X Samples) \cup {<<"foreign", 1>>}

\* The permissions an entity may carry: (principal, level) pairs
ACLs == {<<"study", "read">>}

StoreEntities == [attributes : SUBSET AVUs, permissions : SUBSET ACLs]

\* The Synthesizer's output holds attributes of owned keys only
DesiredStates ==
    [attributes : SUBSET (OwnedKeys \X Samples), permissions : SUBSET ACLs]

NoEntity == [attributes |-> {}, permissions |-> {}]

\* mutant: every desired attribute is added again, present or not
attributes_to_add_NoDiff(current, wanted) == wanted.attributes

\* desired.attributes - current.attributes
attributes_to_add(current, wanted) ==
    wanted.attributes \ current.attributes

\* current.attributes - desired.attributes, restricted to owned keys
attributes_to_remove(current, wanted) ==
    {a \in current.attributes \ wanted.attributes : a[1] \in OwnedKeys}

permissions_to_add(current, wanted) ==
    wanted.permissions \ current.permissions

permissions_to_remove(current, wanted) ==
    current.permissions \ wanted.permissions

\* The elements of a set in a fixed order
RECURSIVE SetToSeq(_)
SetToSeq(S) ==
    IF S = {} THEN <<>>
    ELSE LET x == CHOOSE y \in S : TRUE
         IN  <<x>> \o SetToSeq(S \ {x})

StoreOps(act, what, S) ==
    [i \in 1 .. Cardinality(S) |->
        [act |-> act, what |-> what, x |-> SetToSeq(S)[i]]]

\* The store calls one reconcile makes: the adds, then the removes
Delta(current, wanted) ==
    StoreOps("add", "avu", attributes_to_add(current, wanted))
      \o StoreOps("add", "ac", permissions_to_add(current, wanted))
      \o StoreOps("rm", "avu", attributes_to_remove(current, wanted))
      \o StoreOps("rm", "ac", permissions_to_remove(current, wanted))

\* The entity after one store call has succeeded
ApplyOp(e, op) ==
    IF op.what = "avu"
    THEN [e EXCEPT !.attributes =
             IF op.act = "add" THEN @ \cup {op.x} ELSE @ \ {op.x}]
    ELSE [e EXCEPT !.permissions =
             IF op.act = "add" THEN @ \cup {op.x} ELSE @ \ {op.x}]

\* The entity after the first k store calls of ops have succeeded
RECURSIVE Apply(_, _, _)
Apply(e, ops, k) ==
    IF k = 0 THEN e ELSE ApplyOp(Apply(e, ops, k - 1), ops[k])

\* reconcile(entity, desired) when the store fails the call numbered
\* failing (0: the store fails no call): the result, the entity as the
\* store then holds it, and the store calls made
reconcile(e, wanted, failing) ==
    LET ops == Delta(e, wanted)
    IN  IF ops = <<>>
        THEN [result |-> "UNCHANGED", entity |-> e, calls |-> 0]
        ELSE IF failing = 0
        THEN [result |-> "UPDATED", entity |-> Apply(e, ops, Len(ops)),
              calls |-> Len(ops)]
        ELSE [result |-> "FAILED", entity |-> Apply(e, ops, failing - 1),
              calls |-> failing]

\* The reconcile calls among the recorded outcomes
NumCalls(h) == Cardinality({i \in 1 .. Len(h) : h[i] # "external"})

reconcile_call ==
    /\ cmd = "reconcile"
    /\ NumCalls(outcomes) < MaxCalls
    /\ \E failing \in 0 .. Len(Delta(entity, desired)) :
        LET r == reconcile(entity, desired, failing)
        IN  /\ entity' = r.entity
            /\ store_calls' = store_calls + r.calls
            /\ outcomes' = Append(outcomes, r.result)
    /\ UNCHANGED <<loopvars, histvars, whvars, poolvars, desired, drvvars>>

\* Something other than reconcile changes the entity between two calls
external_change ==
    /\ cmd = "reconcile"
    /\ outcomes # <<>>
    /\ outcomes[Len(outcomes)] # "external"
    /\ NumCalls(outcomes) < MaxCalls
    /\ \E e \in StoreEntities :
        /\ e # entity
        /\ entity' = e
    /\ outcomes' = Append(outcomes, "external")
    /\ UNCHANGED <<loopvars, histvars, whvars, poolvars, desired,
                   store_calls, drvvars>>

(* ------------------------------ the system ----------------------------- *)
Init ==
    /\ cmd \in Commands
    /\ version \in IF cmd = "mlwh_queries" THEN {FALSE} ELSE BOOLEAN
    /\ pc = "main"
    /\ exit_status = NotExited
    /\ num_processed = 0
    /\ num_updated = 0
    /\ num_errors = 0
    /\ skip_absent_runs \in
          IF cmd = "illumina_updates" THEN {None} \cup (1 .. MaxSkip)
          ELSE {None}
    /\ report_tags \in IF cmd = "ont_updates" THEN BOOLEAN ELSE {FALSE}
    /\ attempts_per_run = [r \in Runs |-> 0]
    /\ success_per_run = [r \in Runs |-> 0]
    /\ last_comp = NoComp
    /\ printed = {}
    /\ queries = [k \in Keys |-> NoLookups]
    /\ num_yielded = 0
    /\ last = NoStep
    /\ skip_logged = [r \in Runs |-> 0]
    /\ returned = {}
    /\ unseen = {}
    /\ expansions = 0
    /\ wh = {}
    /\ begin_date \in IF cmd = "apply_ont_metadata" THEN Dates ELSE {None}
    /\ end_date \in IF cmd = "apply_ont_metadata" THEN Dates ELSE {None}
    /\ processed = {}
    /\ query = NoQuery
    /\ found = <<>>
    /\ recent = {}
    /\ clients \in
          IF cmd = "update_secondary_metadata" THEN 1 .. MaxClients
          ELSE {DefaultClients}
    /\ threads \in
          IF cmd = "update_secondary_metadata" THEN 1 .. MaxClients
          ELSE {DefaultThreads}
    /\ pool_size = None
    /\ entity \in IF cmd = "reconcile" THEN StoreEntities ELSE {NoEntity}
    /\ desired \in IF cmd = "reconcile" THEN DesiredStates ELSE {NoEntity}
    /\ store_calls = 0
    /\ outcomes = <<>>
    /\ num_paths = 0
    /\ next_path = 1
    /\ working = [w \in 1 .. MaxWorkers |-> None]
    /\ path_result = [p \in 1 .. MaxItems |-> "none"]
    /\ aborted = FALSE
    /\ peak = 0

Next ==
    \/ locate_data_objects_main
    \/ consent_withdrawn_loop
    \/ consent_withdrawn_end
    \/ illumina_updates_loop
    \/ illumina_updates_end
    \/ ont_updates_loop
    \/ ont_updates_end
    \/ mlwh_record
    \/ test_find_updated_components
    \/ test_find_recent_expt
    \/ test_recently_changed
    \/ apply_ont_metadata_main
    \/ update_secondary_metadata_main
    \/ \E w \in Workers(pool_size) : worker_claim(w)
    \/ \E w \in Workers(pool_size) : worker_complete(w)
    \/ driver_return
    \/ reconcile_call
    \/ external_change

Spec == Init /\ [][Next]_vars

\* update-secondary-metadata alone.  No item has a timeout, so nothing
\* makes a worker finish its path; the one step that must come is the
\* driver's return once nothing is left to do.
DriverInit == Init /\ cmd = "update_secondary_metadata"

DriverNext ==
    \/ update_secondary_metadata_main
    \/ \E w \in Workers(pool_size) : worker_claim(w)
    \/ \E w \in Workers(pool_size) : worker_complete(w)
    \/ driver_return

DriverSpec == DriverInit /\ [][DriverNext]_vars /\ WF_vars(driver_return)

(* ------------------------------ properties ----------------------------- *)
\* A step of the illumina_updates loop
IlluminaStep ==
    cmd = "illumina_updates" /\ num_yielded' = num_yielded + 1

\* C1: with skip_absent_runs = N, a run whose store queries all return
\* nothing is queried at most N times, and once successes = 0 and
\* attempts = N for a run no further query is issued for it.
C1_SkipBound ==
    /\ [](cmd = "illumina_updates" /\ skip_absent_runs # None =>
            \A r \in Runs :
                queries[r].hit = 0 /\ queries[r].raised = 0 =>
                    queries[r].issued <= skip_absent_runs)
    /\ [][cmd = "illumina_updates" /\ skip_absent_runs # None =>
            \A r \in Runs :
                success_per_run[r] = 0
                  /\ attempts_per_run[r] = skip_absent_runs =>
                    queries'[r] = queries[r]]_vars

\* A component of a run is skipped after exactly N empty lookups of the run
C1_Witness ==
    /\ cmd = "illumina_updates"
    /\ skip_absent_runs = MaxSkip
    /\ last.op = "skip"
    /\ queries[last.key].issued = skip_absent_runs
    /\ queries[last.key].empty = skip_absent_runs

\* C2: a run one of whose queries returned an entity is never skipped
\* afterwards: no component of it is skipped, however many empty results
\* follow.
C2_FoundNeverSkipped ==
    cmd = "illumina_updates" /\ last.op = "skip" =>
        queries[last.key].hit = 0

\* A run found once is still queried after more than N empty results
C2_Witness ==
    /\ cmd = "illumina_updates"
    /\ skip_absent_runs # None
    /\ last.op = "empty"
    /\ queries[last.key].hit >= 1
    /\ queries[last.key].empty > skip_absent_runs

\* A step of the illumina_updates or ont_updates loop in which the store
\* query, or printing its result, raised
RaisingStep ==
    /\ cmd \in {"illumina_updates", "ont_updates"}
    /\ num_yielded' = num_yielded + 1
    /\ queries'[last_comp'[1]].raised = queries[last_comp'[1]].raised + 1

\* C3 as stated: an exception raised by the store query or while printing
\* its results adds one to num_errors, leaves attempts_per_run and
\* success_per_run unchanged, and the loop goes on.
C3_Original ==
    [][RaisingStep =>
        /\ num_errors' = num_errors + 1
        /\ attempts_per_run' = attempts_per_run
        /\ success_per_run' = success_per_run
        /\ pc' = "loop"
        /\ exit_status' = NotExited]_vars

\* C3 amended: an exception adds one to num_errors and the loop goes on;
\* attempts_per_run is unchanged; success_per_run is unchanged when the
\* query itself raised, and in illumina_updates it has already been
\* incremented for the run when printing the result raised.
C3_ErrorCaught ==
    [][RaisingStep =>
        /\ num_errors' = num_errors + 1
        /\ attempts_per_run' = attempts_per_run
        /\ success_per_run' =
              IF cmd = "illumina_updates"
                 /\ queries'[last_comp'[1]].hit # queries[last_comp'[1]].hit
              THEN [success_per_run EXCEPT ![last_comp'[1]] = @ + 1]
              ELSE success_per_run
        /\ pc' = "loop"
        /\ exit_status' = NotExited]_vars

\* Printing failed after an earlier query had raised: two errors counted,
\* the loop still running
C3_Witness ==
    /\ cmd = "illumina_updates"
    /\ pc = "loop"
    /\ last.op = "print_error"
    /\ queries[last.key].raised >= 2
    /\ num_errors >= 2

\* C4: skipping a component leaves num_errors unchanged, and a scan in
\* which no lookup raised ends with num_errors = 0.
C4_SkipIsNoError ==
    /\ [](cmd = "illumina_updates" /\ (\A r \in Runs : queries[r].raised = 0)
            => num_errors = 0)
    /\ [][IlluminaStep /\ last'.op = "skip" =>
            num_errors' = num_errors]_vars

\* A scan that skipped a component has ended without errors
C4_Witness ==
    /\ cmd = "illumina_updates"
    /\ pc = "exited"
    /\ last.op = "skip"
    /\ num_errors = 0
    /\ exit_status = 0

CliCommands == Commands \ {"mlwh_queries"}

LoopCommands == {"consent_withdrawn", "illumina_updates", "ont_updates"}

C6_MissingIdentifier ==
    [][cmd = "consent_withdrawn" /\ num_yielded' = num_yielded + 1 =>
        /\ num_errors' \in {num_errors, num_errors + 1}
        /\ last_comp'[2] = None =>
            /\ num_errors' = num_errors + 1
            /\ queries' = queries
            /\ printed' = printed
            /\ pc' = "loop"]_vars

\* The second sample has no identifier, the first was found and printed,
\* and the loop is still running
C6_Witness ==
    /\ cmd = "consent_withdrawn"
    /\ pc = "loop"
    /\ last.op = "missing"
    /\ last_comp[2] = None
    /\ num_processed = 2
    /\ num_errors = 1
    /\ queries[None].issued = 0
    /\ printed # {}

\* Every component a query can return, with or without a tag identifier
AllComponents == Runs \X Positions \X (Tags \cup {None})

\* The records of the warehouse for (run, position) changed in
\* [since, until], both bounds included
RowsInWindow(run, position, since, until) ==
    {r \in wh : /\ r.comp[1] = run
                /\ r.comp[2] = position
                /\ since <= r.t
                /\ r.t <= until}

\* C7: for since <= until, find_updated_components returns exactly the
\* components with a record changed at a time t, since <= t <= until;
\* find_recent_expt and recently_changed return exactly what changed at or
\* after since; a window after the latest record yields nothing.
C7_WindowExact ==
    pc = "tested" =>
        /\ query.fn = "find_updated_components"
             /\ query.since <= query.until =>
              /\ \A c \in AllComponents :
                    (\E i \in 1 .. Len(found) : found[i] = c) <=>
                    (\E r \in RowsInWindow(c[1], c[2], query.since,
                                           query.until) :
                        c[3] = IF query.tags THEN r.comp[3] ELSE None)
              /\ (\A r \in wh : r.t < query.since) => found = <<>>
        /\ query.fn = "find_recent_expt" =>
              /\ \A run \in Runs :
                    run \in recent <=>
                    \E r \in wh : r.comp[1] = run /\ r.t >= query.since
              /\ (\A r \in wh : r.t < query.since) => recent = {}
        /\ query.fn = "recently_changed" =>
              /\ \A r \in Rows :
                    r \in recent <=> (r \in wh /\ r.t >= query.since)
              /\ (\A r \in wh : r.t < query.since) => recent = {}

\* One record changed exactly at since = until is found, another changed
\* later is not
C7_Witness ==
    /\ pc = "tested"
    /\ query.fn = "find_updated_components"
    /\ query.tags
    /\ query.since = query.until
    /\ \E r1 \in wh, r2 \in wh :
        /\ r1.t = query.until
        /\ r2.t > query.until
        /\ r1.comp # r2.comp
        /\ found = <<r1.comp>>

\* C8: the sequence find_updated_components returns is strictly ascending
\* in (run, position, tag-or-None); without include_tags no component has a
\* tag and a (run, position) with records in the window yields one
\* component; with include_tags it yields one component per tag identifier.
C8_OrderedDistinct ==
    pc = "tested" /\ query.fn = "find_updated_components" =>
        /\ \A i \in 1 .. Len(found) - 1 : CompLess(found[i], found[i + 1])
        /\ \A i \in 1 .. Len(found), j \in 1 .. Len(found) :
              found[i] = found[j] => i = j
        /\ ~query.tags => \A i \in 1 .. Len(found) : found[i][3] = None
        /\ \A run \in Runs, position \in Positions :
              LET hits == {i \in 1 .. Len(found) :
                             found[i][1] = run /\ found[i][2] = position}
                  rows == RowsInWindow(run, position, query.since,
                                       query.until)
              IN  Cardinality(hits) =
                     IF query.tags
                     THEN Cardinality({r.comp[3] : r \in rows})
                     ELSE IF rows = {} THEN 0 ELSE 1

\* Two tags of one multiplexed (run, position) changed in the window: one
\* component without include_tags
C8_Witness ==
    /\ pc = "tested"
    /\ query.fn = "find_updated_components"
    /\ ~query.tags
    /\ Len(found) = 1
    /\ \E r1 \in wh, r2 \in wh :
        /\ r1.comp[1] = r2.comp[1]
        /\ r1.comp[2] = r2.comp[2]
        /\ r1.comp[3] # r2.comp[3]
        /\ {r1, r2} \subseteq RowsInWindow(r1.comp[1], r1.comp[2],
                                           query.since, query.until)

\* C9 as stated: apply-ont-metadata processes only the runs with a record
\* changed within [--begin-date, --end-date].
C9_DateRange ==
    cmd = "apply_ont_metadata" /\ pc = "exited" /\ ~version =>
        \A p \in processed :
            RowsInWindow(p[1], p[2], begin_date, end_date) # {}

\* C10 as stated: the update driver runs with a pool of clients x threads
\* as given on the command line.
C10_PoolSize ==
    cmd = "update_secondary_metadata" /\ pc = "exited" /\ ~version =>
        pool_size = clients * threads

\* What the last lookup for the run of the component just yielded returned
ReturnedEntities ==
    queries'[last_comp'[1]].hit = queries[last_comp'[1]].hit + 1

ReturnedNothing ==
    queries'[last_comp'[1]].empty = queries[last_comp'[1]].empty + 1

\* The counters of the runs other than the current one stay as they are,
\* and no counter decreases
OtherRunsUntouched ==
    \A r \in Runs :
        /\ r # last_comp'[1] =>
              /\ attempts_per_run'[r] = attempts_per_run[r]
              /\ success_per_run'[r] = success_per_run[r]
        /\ attempts_per_run'[r] >= attempts_per_run[r]
        /\ success_per_run'[r] >= success_per_run[r]

\* C13 as stated: a query returning an entity adds one to successes[r] and
\* leaves attempts[r]; a query returning nothing adds one to attempts[r]
\* only while successes[r] = 0; other runs are untouched and no counter
\* decreases; hence attempts[r] <= skip_absent_runs always.
C13_Original ==
    /\ [][IlluminaStep =>
            LET r == last_comp'[1]
            IN  /\ ReturnedEntities =>
                      /\ success_per_run'[r] = success_per_run[r] + 1
                      /\ attempts_per_run'[r] = attempts_per_run[r]
                /\ ReturnedNothing =>
                      /\ success_per_run'[r] = success_per_run[r]
                      /\ attempts_per_run'[r] =
                            IF success_per_run[r] = 0
                            THEN attempts_per_run[r] + 1
                            ELSE attempts_per_run[r]
                /\ OtherRunsUntouched]_vars
    /\ [](cmd = "illumina_updates" /\ skip_absent_runs # None =>
            \A r \in Runs : attempts_per_run[r] <= skip_absent_runs)

\* C13 amended: a query returning nothing adds one to attempts[r] whatever
\* successes[r] is, and attempts[r] <= skip_absent_runs holds as long as
\* successes[r] = 0; the rest as stated.
C13_Counters ==
    /\ [][IlluminaStep =>
            LET r == last_comp'[1]
            IN  /\ ReturnedEntities =>
                      /\ success_per_run'[r] = success_per_run[r] + 1
                      /\ attempts_per_run'[r] = attempts_per_run[r]
                /\ ReturnedNothing =>
                      /\ success_per_run'[r] = success_per_run[r]
                      /\ attempts_per_run'[r] = attempts_per_run[r] + 1
                /\ OtherRunsUntouched]_vars
    /\ [](cmd = "illumina_updates" /\ skip_absent_runs # None =>
            \A r \in Runs :
                success_per_run[r] = 0 =>
                    attempts_per_run[r] <= skip_absent_runs)

\* A run found once has had more than N empty lookups counted
C13_Witness ==
    /\ cmd = "illumina_updates"
    /\ skip_absent_runs # None
    /\ \E r \in Runs :
        /\ success_per_run[r] = 1
        /\ queries[r].hit = 1
        /\ attempts_per_run[r] > skip_absent_runs
        /\ attempts_per_run[r] = queries[r].empty

\* C14 as stated: every run with successes[r] = 0 and attempts[r] =
\* skip_absent_runs has a skip event in the log of the invocation, also
\* when its N-th empty lookup was for its last component.
C14_Original ==
    cmd = "illumina_updates" /\ pc = "exited" /\ skip_absent_runs # None =>
        \A r \in Runs :
            success_per_run[r] = 0
              /\ attempts_per_run[r] = skip_absent_runs =>
                skip_logged[r] >= 1

\* C14 amended: a skip event is logged for every component that is skipped,
\* that is for every component yielded while successes[r] = 0 and
\* attempts[r] = skip_absent_runs, and for no other component.
C14_SkipLogged ==
    [][IlluminaStep =>
        LET r == last_comp'[1]
            skipped == /\ skip_absent_runs # None
                       /\ success_per_run[r] = 0
                       /\ attempts_per_run[r] = skip_absent_runs
        IN  /\ skip_logged'[r] =
                  IF skipped THEN skip_logged[r] + 1 ELSE skip_logged[r]
            /\ \A q \in Runs \ {r} : skip_logged'[q] = skip_logged[q]]_vars

\* The scan ended with one run skipped and logged twice and another at N
\* empty lookups without a skip event
C14_Witness ==
    /\ cmd = "illumina_updates"
    /\ pc = "exited"
    /\ skip_absent_runs = MaxSkip
    /\ skip_logged[1] = 2
    /\ success_per_run[2] = 0
    /\ attempts_per_run[2] = skip_absent_runs
    /\ skip_logged[2] = 0

\* C16: with skip_absent_runs unset (None, or 0) no component is skipped:
\* every component the scan yields is looked up in the store once, however
\* many lookups of its run returned nothing before.
C16_NeverSkipWhenUnset ==
    /\ [](cmd = "illumina_updates" /\ skip_absent_runs = None =>
            /\ \A r \in Runs : skip_logged[r] = 0
            /\ last.op # "skip")
    /\ [][IlluminaStep /\ skip_absent_runs = None =>
            /\ queries'[last_comp'[1]].issued =
                  queries[last_comp'[1]].issued + 1
            /\ \A r \in Runs \ {last_comp'[1]} :
                  queries'[r] = queries[r]]_vars

\* Four lookups of one run in a row returned nothing
C16_Witness ==
    /\ cmd = "illumina_updates"
    /\ skip_absent_runs = None
    /\ queries[1].issued = 4
    /\ queries[1].empty = 4
    /\ last.op = "empty"

\* All store lookups issued so far
TotalIssued(q) == q[None].issued + q[1].issued + q[2].issued

\* C17: in the three locate loops num_processed is the number of items the
\* warehouse scan has yielded, whatever their outcome, and
\* 0 <= num_errors <= num_processed; one item adds at most one error and
\* at most one store lookup.
C17_Counts ==
    /\ [](cmd \in LoopCommands =>
            /\ num_processed = num_yielded
            /\ 0 <= num_errors
            /\ num_errors <= num_processed
            /\ TotalIssued(queries) <= num_yielded)
    /\ [][(num_yielded' = num_yielded + 1 /\ cmd \in LoopCommands) =>
            /\ num_errors' \in {num_errors, num_errors + 1}
            /\ TotalIssued(queries') >= TotalIssued(queries)
            /\ TotalIssued(queries') <= TotalIssued(queries) + 1]_vars

\* A finished scan of four components: found, empty, skipped and failed
C17_Witness ==
    /\ cmd = "illumina_updates"
    /\ pc = "exited"
    /\ num_processed = 4
    /\ num_errors = 1
    /\ printed # {}
    /\ skip_logged[1] + skip_logged[2] = 1
    /\ TotalIssued(queries) = 3

\* The paths of a set of printed lines or returned entities
Paths(S) == {[comp |-> x.comp, k |-> x.k] : x \in S}

\* The first skip_absent_runs lookups of run r were issued and all of them
\* returned nothing
FirstLookupsEmpty(r) ==
    /\ cmd = "illumina_updates"
    /\ skip_absent_runs # None
    /\ queries[r].issued = skip_absent_runs
    /\ queries[r].empty = skip_absent_runs

\* C18 as stated: what illumina_updates has printed is exactly what the
\* lookups that did not raise have returned
C18_Original ==
    cmd = "illumina_updates" => Paths(printed) = Paths(returned)

\* C18: in illumina_updates every printed path was returned by a lookup
\* that did not raise, and every entity returned for a component whose
\* iteration ended without an exception is printed; of a component whose
\* printing raised, the entities from the failing one on are not printed.
\* Once the first skip_absent_runs lookups of a run have all returned
\* nothing, no further lookup of that run is issued and no path of it is
\* printed, whatever the store holds for its later components.  A run none
\* of whose lookups returned nothing is never skipped: each of its
\* components is looked up once.
C18_PrintedAndSkips ==
    /\ [](cmd = "illumina_updates" =>
            /\ Paths(printed) \subseteq Paths(returned)
            /\ Paths({x \in returned : x.clean}) \subseteq Paths(printed)
            /\ \A x \in returned :
                  ~x.clean =>
                     \E y \in returned :
                        /\ y.comp = x.comp
                        /\ [comp |-> y.comp, k |-> y.k] \notin Paths(printed))
    /\ [](\A r \in Runs :
            FirstLookupsEmpty(r) => \A x \in printed : x.comp[1] # r)
    /\ [][\A r \in Runs :
            FirstLookupsEmpty(r) =>
               /\ queries'[r] = queries[r]
               /\ {x \in printed' : x.comp[1] = r} = {}]_vars
    /\ [](cmd = "illumina_updates" =>
            \A r \in Runs : queries[r].empty = 0 => skip_logged[r] = 0)
    /\ [][\A r \in Runs :
            (IlluminaStep /\ last_comp'[1] = r /\ queries[r].empty = 0) =>
               queries'[r].issued = queries[r].issued + 1]_vars

\* Run 1 is skipped after one empty lookup although the store holds
\* entities for a later component of it; both lookups of run 2 raise, one
\* of them while printing
C18_Witness ==
    /\ cmd = "illumina_updates"
    /\ pc = "exited"
    /\ FirstLookupsEmpty(1)
    /\ 1 \in unseen
    /\ queries[2].issued = 2
    /\ queries[2].raised = 2
    /\ \E x \in returned : x.comp[1] = 2 /\ ~x.clean
    /\ skip_logged[2] = 0

OntStep == cmd = "ont_updates" /\ num_yielded' = num_yielded + 1

\* C15: in ont_updates the lines printed for a component are barcode
\* folders, and one call of barcode_collections is made per collection
\* found, exactly when report_tags is set and the component has a tag
\* identifier; otherwise each collection found is printed once and
\* barcode_collections is not called.  Nothing but lines of the component
\* just yielded is printed, and a component whose lookup returns nothing,
\* or whose barcode folders are absent, prints nothing and adds no error.
C15_BarcodeReporting ==
    [][OntStep =>
        LET c == last_comp'
            new == printed' \ printed
            colls == returned' \ returned
            raised == queries'[c[1]].raised > queries[c[1]].raised
            tagged == report_tags /\ c[3] # None
        IN  /\ \A x \in new : x.comp = c
            /\ tagged =>
                  /\ \A x \in new : x.kind = "bcoll"
                  /\ expansions' = expansions + Cardinality(colls)
            /\ ~tagged =>
                  /\ \A x \in new : x.kind = "coll"
                  /\ expansions' = expansions
                  /\ ~raised => Paths(new) = Paths(colls)
            /\ (colls = {} /\ ~raised) =>
                  new = {} /\ num_errors' = num_errors
            /\ (new = {} /\ ~raised) => num_errors' = num_errors]_vars

\* With report_tags: the barcode folders of a tagged component and the
\* collection of an untagged one were printed, and a tagged component
\* whose barcode folders are absent printed nothing; no error was counted
C15_Witness ==
    /\ cmd = "ont_updates"
    /\ pc = "exited"
    /\ report_tags
    /\ num_errors = 0
    /\ \E x \in printed : x.kind = "bcoll" /\ x.comp[3] # None
    /\ \E x \in printed : x.kind = "coll" /\ x.comp[3] = None
    /\ \E y \in returned :
          y.comp[3] # None /\ \A x \in printed : x.comp # y.comp

\* Two reconcile calls in succession, with no external change between
\* them: the calls numbered i and i + 1 of the recorded outcomes
Successive(i) ==
    /\ cmd = "reconcile"
    /\ i \in 1 .. Len(outcomes) - 1
    /\ outcomes[i] # "external"
    /\ outcomes[i + 1] # "external"

ReconcileStep ==
    cmd = "reconcile" /\ NumCalls(outcomes') = NumCalls(outcomes) + 1

\* The entity carries the desired permissions and, of the owned keys, the
\* desired attributes
Reconciled(e, wanted) ==
    /\ {a \in e.attributes : a[1] \in OwnedKeys} = wanted.attributes
    /\ e.permissions = wanted.permissions

\* C11 as stated, whatever the first call returned: the second of two
\* successive reconcile calls returns UNCHANGED
C11_Original ==
    \A i \in 1 .. Len(outcomes) : Successive(i) => outcomes[i + 1] = "UNCHANGED"

\* C11: of two successive reconcile calls with no external change between
\* them, the second returns UNCHANGED if the first returned UPDATED or
\* UNCHANGED, and UPDATED or FAILED if the first returned FAILED.  A call
\* returns UNCHANGED exactly when the entity already is as desired; it
\* then makes no store call and leaves the attributes and permissions as
\* they are.  UPDATED leaves the entity as desired, and no call touches an
\* attribute of a foreign key.
C11_Idempotence ==
    /\ [](\A i \in 1 .. Len(outcomes) :
            Successive(i) =>
               /\ outcomes[i] \in {"UPDATED", "UNCHANGED"} =>
                     outcomes[i + 1] = "UNCHANGED"
               /\ outcomes[i] = "FAILED" =>
                     outcomes[i + 1] \in {"UPDATED", "FAILED"})
    /\ [][ReconcileStep =>
            LET result == outcomes'[Len(outcomes')]
            IN  /\ result = "UNCHANGED" <=> Reconciled(entity, desired)
                /\ result = "UNCHANGED" =>
                      entity' = entity /\ store_calls' = store_calls
                /\ result = "UPDATED" =>
                      Reconciled(entity', desired) /\ store_calls' > store_calls
                /\ result = "FAILED" =>
                      ~Reconciled(entity', desired) /\ store_calls' > store_calls
                /\ {a \in entity'.attributes : a[1] \notin OwnedKeys} =
                      {a \in entity.attributes : a[1] \notin OwnedKeys}]_vars

\* A first call fails after its first store call has changed the entity,
\* the second call completes the update and the third finds nothing to do;
\* the foreign attribute is still there
C11_Witness ==
    /\ cmd = "reconcile"
    /\ outcomes = <<"FAILED", "UPDATED", "UNCHANGED">>
    /\ store_calls >= 4
    /\ Reconciled(entity, desired)
    /\ <<"foreign", 1>> \in entity.attributes

\* The paths of the input stream that have been classified
Classified == {p \in 1 .. num_paths : path_result[p] # "none"}

\* The input is exhausted and no dispatched item is still being worked on
NothingLeft ==
    pc = "driver" /\ next_path > num_paths /\ Busy(working) = {}

\* C12: whatever the interleaving of the workers, the counters are those
\* of the items classified so far (no update is lost); the driver returns
\* only when every path of the input has been classified, whether or not
\* other paths failed, and then num_processed is the number of input paths
\* and num_updated + num_errors <= num_processed; once the input is
\* exhausted and all dispatched items have completed it does return.
C12_DriverTerminates ==
    /\ [](/\ num_processed = Cardinality(Classified)
          /\ num_updated =
                Cardinality({p \in Classified : path_result[p] = "UPDATED"})
          /\ num_errors =
                Cardinality({p \in Classified : path_result[p] = "FAILED"})
          /\ num_updated + num_errors <= num_processed
          /\ (pc = "exited" /\ ~version) =>
                /\ Classified = 1 .. num_paths
                /\ num_processed = num_paths)
    /\ (NothingLeft ~> pc = "exited")

\* Three paths went through two workers busy at the same time; the first
\* path failed, the later ones were still processed
C12_Witness ==
    /\ cmd = "update_secondary_metadata"
    /\ pc = "exited"
    /\ num_paths = 3
    /\ peak = 2
    /\ path_result[1] = "FAILED"
    /\ path_result[2] = "UPDATED"
    /\ path_result[3] = "UNCHANGED"
    /\ num_processed = 3
    /\ num_updated = 1
    /\ num_errors = 1
    /\ exit_status = 1

====
